---- MODULE Spec2Model ----
(***************************************************************************)
(* Production pipeline of pokercats-agents-backend:                        *)
(*   workflows/production_orchestrator.py  (ProductionOrchestrator)        *)
(*   tools/clarifying_questions.py, tools/alt_beat_generator.py,           *)
(*   tools/shot_planner.py, tools/tool_selector.py, models/*.py            *)
(*                                                                         *)
(* Python values are represented as follows.                               *)
(*   dict          a function whose DOMAIN is the set of keys ({} is the   *)
(*                 function with empty domain, which Python treats as      *)
(*                 false in `if not d`)                                    *)
(*   None (object) the value None below                                    *)
(*   None (str)    the reserved string NoneStr                             *)
(*   str           a TLA+ string, except the value of 'estimated_duration',*)
(*                 which is a sequence of one-character strings so that    *)
(*                 .replace('s', '') and int() act on its characters       *)
(*   money         whole cents (0.05 USD/s is 5)                           *)
(***************************************************************************)
EXTENDS Integers, Sequences, FiniteSets, TLC

VARIABLES mode, vrd, clarifications, script, shot_list, production_plan,
          current_step, steps_completed, result, duration_input, timing,
          tool_call, tool_result

vars == <<mode, vrd, clarifications, script, shot_list, production_plan,
          current_step, steps_completed, result, duration_input, timing,
          tool_call, tool_result>>

orchestrator_vars == <<mode, vrd, clarifications, script, shot_list,
                       production_plan, current_step, steps_completed, result>>

(***************************************************************************)
(* Bounds of the model.                                                    *)
(***************************************************************************)
\* longest steps_completed list explored
MaxSteps == 5
\* largest total duration handed to the Timing Allocator on its own
MaxDuration == 130
\* the Timing Allocator is also tried on durations down to -MaxNegDuration
MaxNegDuration == 25
\* largest end offset of a beat handed to the Timing Validator on its own
MaxBeatEnd == 7
\* longest beat handed to the Shot Deriver on its own
MaxBeatDuration == 40
\* longest beat of a two-beat list handed to the Shot Deriver
MaxPairDuration == 12
\* longest shot handed to the Tool Selector on its own
MaxShotDuration == 15

(***************************************************************************)
(* Python values and dict operations.                                      *)
(***************************************************************************)
None == [is_none |-> TRUE]
NoneStr == "None"
EmptyDict == [k \in {} |-> ""]

\* d.get(k, default)
Get(d, k, default) == IF k \in DOMAIN d THEN d[k] ELSE default

\* bool(d) for a dict or None
Truthy(d) == d # None /\ DOMAIN d # {}

\* bool(s) for a str or None
TruthyStr(s) == s # NoneStr /\ s # ""

\* d.copy(); d.update(c)
DictUpdate(d, c) ==
    [k \in DOMAIN d \cup DOMAIN c |-> IF k \in DOMAIN c THEN c[k] ELSE d[k]]

Max(a, b) == IF a >= b THEN a ELSE b

\* F(v) with v computed once, as Python computes a value before it is used
Bind(v, F(_)) == CHOOSE out \in {F(x) : x \in {v}} : TRUE

RECURSIVE SumSeq(_)
SumSeq(s) == IF s = <<>> THEN 0 ELSE Head(s) + SumSeq(Tail(s))

(***************************************************************************)
(* int(duration_str.replace('s', ''))   alt_beat_generator.py:227          *)
(***************************************************************************)
DigitChars == {"0", "1", "2", "3", "4", "5", "6", "7", "8", "9"}

DigitValue(c) ==
    CASE c = "0" -> 0 [] c = "1" -> 1 [] c = "2" -> 2 [] c = "3" -> 3
      [] c = "4" -> 4 [] c = "5" -> 5 [] c = "6" -> 6 [] c = "7" -> 7
      [] c = "8" -> 8 [] c = "9" -> 9

\* str.replace('s', ''): every occurrence of the character is removed
ReplaceS(chars) == SelectSeq(chars, LAMBDA c : c # "s")

RECURSIVE DigitsToInt(_, _)
DigitsToInt(chars, acc) ==
    IF chars = <<>> THEN acc
    ELSE DigitsToInt(Tail(chars), 10 * acc + DigitValue(Head(chars)))

AllDigits(chars) ==
    /\ chars # <<>>
    /\ \A i \in 1..Len(chars) : chars[i] \in DigitChars

\* int(text) on a text of sign and digit characters: the value, or ValueError
PyInt(chars) ==
    IF chars # <<>> /\ Head(chars) \in {"-", "+"} /\ AllDigits(Tail(chars))
    THEN [raised |-> "none",
          value |-> IF Head(chars) = "-" THEN 0 - DigitsToInt(Tail(chars), 0)
                    ELSE DigitsToInt(Tail(chars), 0)]
    ELSE IF AllDigits(chars)
    THEN [raised |-> "none", value |-> DigitsToInt(chars, 0)]
    ELSE [raised |-> "ValueError", value |-> 0]

\* str(n) for n >= 0: the decimal digits of n
RECURSIVE IntToDigits(_)
IntToDigits(n) ==
    LET last == CHOOSE c \in DigitChars : DigitValue(c) = n % 10
    IN  IF n < 10 THEN <<last>> ELSE Append(IntToDigits(n \div 10), last)

\* f'{n:02d}': sign and digits, zero-padded to two characters
Format02d(n) ==
    LET text == IF n < 0 THEN <<"-">> \o IntToDigits(0 - n) ELSE IntToDigits(n)
    IN  IF Len(text) >= 2 THEN text ELSE <<"0">> \o text

\* f'00:00:{seconds:02d}:00'
Timecode(seconds) ==
    <<"0", "0", ":", "0", "0", ":">> \o Format02d(seconds) \o <<":", "0", "0">>

\* the default of vrd.get('estimated_duration', '60s')
DefaultDurationStr == <<"6", "0", "s">>

(***************************************************************************)
(* Timing Allocator: calculate_eight_part_timing                           *)
(***************************************************************************)
PositionOrder ==
    <<"hook", "inciting_event", "first_plot_point", "first_pinch_point",
      "midpoint", "second_pinch_point", "third_plot_point", "climax">>

Positions == {PositionOrder[i] : i \in 1..Len(PositionOrder)}

\* int(duration_seconds * 0.pp): the float product truncated towards zero
\* (equal to the exact quotient for every |duration_seconds| < 400)
IntPercent(duration_seconds, pct) ==
    IF duration_seconds >= 0
    THEN (duration_seconds * pct) \div 100
    ELSE 0 - (((0 - duration_seconds) * pct) \div 100)

calculate_eight_part_timing(duration_seconds) ==
    [p \in Positions |->
        CASE p = "hook" ->
                <<0, Max(3, IntPercent(duration_seconds, 5))>>
          [] p = "inciting_event" ->
                <<IntPercent(duration_seconds, 5), IntPercent(duration_seconds, 12)>>
          [] p = "first_plot_point" ->
                <<IntPercent(duration_seconds, 12), IntPercent(duration_seconds, 25)>>
          [] p = "first_pinch_point" ->
                <<IntPercent(duration_seconds, 25), IntPercent(duration_seconds, 37)>>
          [] p = "midpoint" ->
                <<IntPercent(duration_seconds, 37), IntPercent(duration_seconds, 50)>>
          [] p = "second_pinch_point" ->
                <<IntPercent(duration_seconds, 50), IntPercent(duration_seconds, 62)>>
          [] p = "third_plot_point" ->
                <<IntPercent(duration_seconds, 62), IntPercent(duration_seconds, 75)>>
          [] p = "climax" ->
                <<IntPercent(duration_seconds, 75), duration_seconds>>]

(***************************************************************************)
(* Beat data model: models/alt_beat.py                                     *)
(***************************************************************************)
ShotType == {"extreme_closeup", "closeup", "medium_closeup", "medium",
             "medium_wide", "wide", "extreme_wide"}

CameraMovement == {"static", "pan", "tilt", "dolly", "zoom", "handheld"}

EightPartBeat == {"hook", "inciting_event", "first_plot_point",
                  "first_pinch_point", "midpoint", "second_pinch_point",
                  "third_plot_point", "climax"}

Complexity == {"low", "medium", "high"}

\* the field constraints pydantic enforces when an ALTBeat and its parts are
\* constructed (Literal types and Field(ge=1, le=10))
ALTBeatValid(beat) ==
    /\ beat.shot_type \in ShotType
    /\ beat.camera_movement \in CameraMovement
    /\ beat.complexity \in Complexity
    /\ beat.intensity >= 1 /\ beat.intensity <= 10
    /\ beat.eight_part_position \in EightPartBeat

\* ScriptMetadata.tone is a required str: None is rejected
ScriptMetadataValid(tone) == tone # NoneStr

(***************************************************************************)
(* Beat Generator: tools/alt_beat_generator.py                             *)
(***************************************************************************)
\* BEAT_TEMPLATES; shot_type is shot_types[0], the only entry that is read
BEAT_TEMPLATES ==
    [p \in Positions |->
        CASE p = "hook" ->
                [shot_type |-> "closeup", camera_movement |-> "static",
                 lighting |-> "professional_bright", intensity |-> 7,
                 complexity |-> "high"]
          [] p = "inciting_event" ->
                [shot_type |-> "medium", camera_movement |-> "slow_push",
                 lighting |-> "professional_neutral", intensity |-> 6,
                 complexity |-> "medium"]
          [] p = "first_plot_point" ->
                [shot_type |-> "wide", camera_movement |-> "dolly",
                 lighting |-> "professional_bright", intensity |-> 5,
                 complexity |-> "medium"]
          [] p = "first_pinch_point" ->
                [shot_type |-> "closeup", camera_movement |-> "static",
                 lighting |-> "professional_neutral", intensity |-> 6,
                 complexity |-> "medium"]
          [] p = "midpoint" ->
                [shot_type |-> "medium", camera_movement |-> "slow_push",
                 lighting |-> "professional_bright", intensity |-> 8,
                 complexity |-> "high"]
          [] p = "second_pinch_point" ->
                [shot_type |-> "closeup", camera_movement |-> "static",
                 lighting |-> "professional_bright", intensity |-> 7,
                 complexity |-> "medium"]
          [] p = "third_plot_point" ->
                [shot_type |-> "medium", camera_movement |-> "slow_push",
                 lighting |-> "professional_neutral", intensity |-> 6,
                 complexity |-> "medium"]
          [] p = "climax" ->
                [shot_type |-> "medium", camera_movement |-> "dolly",
                 lighting |-> "professional_bright", intensity |-> 9,
                 complexity |-> "high"]]

\* clarifications.get('tone') if clarifications else vrd.get('tone', 'professional')
SelectTone(rd, clar) ==
    IF Truthy(clar) THEN Get(clar, "tone", NoneStr)
    ELSE Get(rd, "tone", "professional")

\* mutant: a beat's duration is its end offset
generate_alt_beat_DurationIsEnd(position, start, end, beat_number, rd, clar) ==
    LET template == IF position \in DOMAIN BEAT_TEMPLATES
                    THEN BEAT_TEMPLATES[position] ELSE BEAT_TEMPLATES["hook"]
    IN  [beat_id |-> IntToDigits(beat_number) \o <<".", "0">>,
         sequence_order |-> beat_number,
         scene_number |-> ((beat_number - 1) \div 3) + 1,
         start |-> start,
         end |-> end,
         timecode_start |-> Timecode(start),
         timecode_end |-> Timecode(end),
         duration_seconds |-> end,
         shot_type |-> template.shot_type,
         camera_movement |-> template.camera_movement,
         lighting |-> template.lighting,
         complexity |-> template.complexity,
         intensity |-> template.intensity,
         music_mood |-> SelectTone(rd, clar),
         eight_part_position |-> position,
         requires_vfx |-> position \in {"hook", "midpoint", "climax"},
         suggested_tool_category |->
             IF end > 5 THEN "text_to_video" ELSE "image_to_video"]

\* the fields handed to the ALTBeat constructor
generate_alt_beat(position, start, end, beat_number, rd, clar) ==
    LET template == IF position \in DOMAIN BEAT_TEMPLATES
                    THEN BEAT_TEMPLATES[position] ELSE BEAT_TEMPLATES["hook"]
        duration == end - start
    IN  [beat_id |-> IntToDigits(beat_number) \o <<".", "0">>,
         sequence_order |-> beat_number,
         scene_number |-> ((beat_number - 1) \div 3) + 1,
         start |-> start,
         end |-> end,
         timecode_start |-> Timecode(start),
         timecode_end |-> Timecode(end),
         duration_seconds |-> duration,
         shot_type |-> template.shot_type,
         camera_movement |-> template.camera_movement,
         lighting |-> template.lighting,
         complexity |-> template.complexity,
         intensity |-> template.intensity,
         music_mood |-> SelectTone(rd, clar),
         eight_part_position |-> position,
         requires_vfx |-> position \in {"hook", "midpoint", "climax"},
         suggested_tool_category |->
             IF duration > 5 THEN "text_to_video" ELSE "image_to_video"]

\* the segments that get a beat, in dict order: `if beat_duration <= 0: continue`
BeatPositions(eight_part_timing) ==
    SelectSeq(PositionOrder,
              LAMBDA p : eight_part_timing[p][2] - eight_part_timing[p][1] > 0)

\* the beats of the loop over eight_part_timing.items()
BuildBeats(eight_part_timing, rd, clar) ==
    LET kept == BeatPositions(eight_part_timing)
    IN  [i \in 1..Len(kept) |->
            generate_alt_beat(kept[i], eight_part_timing[kept[i]][1],
                              eight_part_timing[kept[i]][2], i, rd, clar)]

\* the Script assembled from the parsed duration, or the pydantic
\* ValidationError of a beat or of the metadata
AssembleScript(duration_seconds, eight_part_timing, beats, tone, m) ==
    IF \E i \in 1..Len(beats) : ~ALTBeatValid(beats[i])
    THEN [raised |-> "ValidationError", script |-> None]
    ELSE IF ~ScriptMetadataValid(tone)
    THEN [raised |-> "ValidationError", script |-> None]
    ELSE [raised |-> "none",
          script |-> [mode |-> m,
                      duration_seconds |-> duration_seconds,
                      tone |-> tone,
                      eight_part_breakdown |-> eight_part_timing,
                      beats |-> beats,
                      total_beat_count |-> Len(beats)]]

\* duration_str = vrd.get('estimated_duration', '60s')
\* duration_seconds = int(duration_str.replace('s', ''))
ParseDuration(rd) ==
    PyInt(ReplaceS(Get(rd, "estimated_duration", DefaultDurationStr)))

\* generate_alt_beats: the Script, or the exception that leaves it
generate_alt_beats(rd, clar, m) ==
    Bind(ParseDuration(rd),
         LAMBDA parsed :
            IF parsed.raised # "none"
            THEN [raised |-> parsed.raised, script |-> None]
            ELSE Bind(calculate_eight_part_timing(parsed.value),
                      LAMBDA eight_part_timing :
                         Bind(BuildBeats(eight_part_timing, rd, clar),
                              LAMBDA beats :
                                 AssembleScript(parsed.value, eight_part_timing,
                                                beats, SelectTone(rd, clar), m))))

\* tolerance = 5
tolerance == 5

Abs(n) == IF n < 0 THEN 0 - n ELSE n

\* validate_alt_beats_timing: the report; an issue is recorded by its kind
\* and, for a gap, by the numbers of the two beats named in its message
validate_alt_beats_timing(beats, target_duration) ==
    LET total_duration ==
            SumSeq([i \in 1..Len(beats) |-> beats[i].duration_seconds])
        duration_issues ==
            IF Abs(total_duration - target_duration) > tolerance
            THEN <<[kind |-> "total_duration", first |-> 0, second |-> 0]>>
            ELSE <<>>
        gap_pairs ==
            SelectSeq([i \in 1..(Len(beats) - 1) |-> i],
                      LAMBDA i : beats[i].timecode_end # beats[i + 1].timecode_start)
        gap_issues ==
            [k \in 1..Len(gap_pairs) |->
                [kind |-> "gap", first |-> gap_pairs[k],
                 second |-> gap_pairs[k] + 1]]
        issues == duration_issues \o gap_issues
    IN  [valid |-> Len(issues) = 0,
         total_duration |-> total_duration,
         target_duration |-> target_duration,
         difference |-> total_duration - target_duration,
         issues |-> issues]

(***************************************************************************)
(* Shot Deriver: tools/shot_planner.py                                     *)
(***************************************************************************)
SHOT_TYPE_MAP ==
    [p \in Positions |->
        CASE p = "hook" -> "closeup"
          [] p = "inciting_event" -> "medium"
          [] p = "first_plot_point" -> "medium_wide"
          [] p = "first_pinch_point" -> "medium_closeup"
          [] p = "midpoint" -> "wide"
          [] p = "second_pinch_point" -> "closeup"
          [] p = "third_plot_point" -> "medium"
          [] p = "climax" -> "medium_wide"]

\* round(duration / 6) for duration >= 0: Python rounds a tie to the even integer
RoundDiv6(duration) ==
    LET q == duration \div 6
        r == duration % 6
    IN  IF r < 3 THEN q
        ELSE IF r > 3 THEN q + 1
        ELSE IF q % 2 = 0 THEN q ELSE q + 1

\* shots_needed = max(1, round(duration / 6))
ShotsNeeded(duration) == Max(1, RoundDiv6(duration))

\* mutant: the last shot of a group takes no remainder
ShotDuration_NoRemainder(duration, shots_needed, shot_idx) ==
    duration \div shots_needed

\* shot_duration of the shot with index shot_idx (0-based) of a beat
ShotDuration(duration, shots_needed, shot_idx) ==
    IF shot_idx = shots_needed - 1
    THEN duration - ((duration \div shots_needed) * (shots_needed - 1))
    ELSE duration \div shots_needed

\* mutant: shots of the hook segment lose the VFX flag
generate_shot_from_beat_HookWithoutVfx(beat, shot_number, shot_duration, shot_index) ==
    LET position == beat.eight_part_position
        shot_type == IF position \in DOMAIN SHOT_TYPE_MAP
                     THEN SHOT_TYPE_MAP[position] ELSE "medium"
        lighting_mood == IF position \in {"hook", "climax", "midpoint"}
                         THEN "bright" ELSE "neutral"
    IN  [shot_number |-> shot_number,
         beat_ref |-> beat.beat_id,
         shot_type |-> shot_type,
         position |-> position,
         camera_movement |->
             IF position \in {"midpoint", "climax"}
             THEN (IF shot_duration > 5 THEN "dolly" ELSE "slow_push")
             ELSE (IF shot_duration < 4 THEN "static" ELSE "slow_dolly"),
         duration_seconds |-> shot_duration,
         focal_point |->
             IF position \in {"hook", "climax"} THEN "center"
             ELSE IF shot_number % 2 = 0 THEN "center_right" ELSE "center_left",
         depth_of_field |->
             IF shot_type \in {"closeup", "medium_closeup", "extreme_closeup"}
             THEN "shallow" ELSE "deep",
         lighting_mood |-> lighting_mood,
         complexity_score |-> IF position \in {"midpoint", "climax"} THEN 7 ELSE 5,
         requires_motion |-> shot_duration > 5,
         requires_vfx |-> beat.requires_vfx /\ position # "hook",
         estimated_generation_time_seconds |-> 45 + (shot_duration * 2)]

generate_shot_from_beat(beat, shot_number, shot_duration, shot_index) ==
    LET position == beat.eight_part_position
        shot_type == IF position \in DOMAIN SHOT_TYPE_MAP
                     THEN SHOT_TYPE_MAP[position] ELSE "medium"
        lighting_mood == IF position \in {"hook", "climax", "midpoint"}
                         THEN "bright" ELSE "neutral"
    IN  [shot_number |-> shot_number,
         beat_ref |-> beat.beat_id,
         shot_type |-> shot_type,
         position |-> position,
         camera_movement |->
             IF position \in {"midpoint", "climax"}
             THEN (IF shot_duration > 5 THEN "dolly" ELSE "slow_push")
             ELSE (IF shot_duration < 4 THEN "static" ELSE "slow_dolly"),
         duration_seconds |-> shot_duration,
         focal_point |->
             IF position \in {"hook", "climax"} THEN "center"
             ELSE IF shot_number % 2 = 0 THEN "center_right" ELSE "center_left",
         depth_of_field |->
             IF shot_type \in {"closeup", "medium_closeup", "extreme_closeup"}
             THEN "shallow" ELSE "deep",
         lighting_mood |-> lighting_mood,
         complexity_score |-> IF position \in {"midpoint", "climax"} THEN 7 ELSE 5,
         requires_motion |-> shot_duration > 5,
         requires_vfx |-> beat.requires_vfx,
         estimated_generation_time_seconds |-> 45 + (shot_duration * 2)]

\* the shots of beats[i..], numbered from shot_number on
RECURSIVE DeriveShots(_, _, _)
DeriveShots(alt_beats, i, shot_number) ==
    IF i > Len(alt_beats) THEN <<>>
    ELSE LET beat == alt_beats[i]
             duration == beat.duration_seconds
             shots_needed == ShotsNeeded(duration)
             group == [k \in 1..shots_needed |->
                          generate_shot_from_beat(
                              beat, shot_number + k - 1,
                              ShotDuration(duration, shots_needed, k - 1), k - 1)]
         IN  group \o DeriveShots(alt_beats, i + 1, shot_number + shots_needed)

\* the ShotList around the derived shots, with its AssetSummary counts
AssembleShotList(shots, alt_beats, m) ==
    [mode |-> m,
     total_shots |-> Len(shots),
     total_scenes |-> Len(alt_beats),
     shots |-> shots,
     total_unique_shot_types |->
         Cardinality({shots[i].shot_type : i \in 1..Len(shots)}),
     vfx_shots |->
         Cardinality({i \in 1..Len(shots) : shots[i].requires_vfx}),
     estimated_total_time_seconds |->
         SumSeq([i \in 1..Len(shots) |->
                    shots[i].estimated_generation_time_seconds])]

generate_shot_list(alt_beats, m) ==
    Bind(DeriveShots(alt_beats, 1, 1),
         LAMBDA shots : AssembleShotList(shots, alt_beats, m))

(***************************************************************************)
(* Tool Selector and Production Plan Aggregator: tools/tool_selector.py    *)
(* cost_per_second and costs are in cents, score in tenths.                *)
(***************************************************************************)
Rec(tool, score, cost_per_second) ==
    [tool |-> tool, score |-> score, cost_per_second |-> cost_per_second]

SOTA_TOOL_RECOMMENDATIONS ==
    [c \in {"wide", "extreme_wide", "closeup", "medium_closeup", "medium",
            "medium_wide"} |->
        CASE c = "wide" ->
                [high_quality |-> Rec("Google Veo 3", 97, 8),
                 balanced |-> Rec("Runway Gen-3 Alpha", 93, 5),
                 budget |-> Rec("Luma Dream Machine 1.6", 91, 8)]
          [] c = "extreme_wide" ->
                [high_quality |-> Rec("OpenAI Sora", 96, 10),
                 balanced |-> Rec("Google Veo 3", 97, 8),
                 budget |-> Rec("Kling AI 1.5/2.1", 92, 6)]
          [] c \in {"closeup", "medium_closeup"} ->
                [high_quality |-> Rec("Kling AI 1.5/2.1", 92, 6),
                 balanced |-> Rec("Runway Gen-3 Alpha", 93, 5),
                 budget |-> Rec("Haiper AI", 86, 5)]
          [] c \in {"medium", "medium_wide"} ->
                [high_quality |-> Rec("Runway Gen-3 Alpha", 93, 5),
                 balanced |-> Rec("Luma Dream Machine 1.6", 91, 8),
                 budget |-> Rec("Haiper AI", 86, 5)]]

VFX_TOOL == [tool |-> "Runway Gen-3 Alpha", cost_per_second |-> 5, fixed_cost |-> 15]

\* mutant: the cost of the VFX step is left out of the total
select_optimal_tool_for_shot_VfxCostDropped(shot, constraints) ==
    LET cons == IF Truthy(constraints) THEN constraints ELSE EmptyDict
        quality_priority == Get(cons, "quality_priority", "balanced")
        duration == shot.duration_seconds
        shot_category == IF shot.shot_type \in DOMAIN SOTA_TOOL_RECOMMENDATIONS
                         THEN shot.shot_type ELSE "medium"
        tiers == SOTA_TOOL_RECOMMENDATIONS[shot_category]
        tool_rec == IF quality_priority \in DOMAIN tiers
                    THEN tiers[quality_priority] ELSE tiers["balanced"]
        estimated_cost == duration * tool_rec.cost_per_second
        estimated_time == 45 + (duration * 2)
        primary == [step |-> 1,
                    tool |-> tool_rec.tool,
                    workflow_type |-> IF duration > 5 THEN "text_to_video"
                                      ELSE "image_to_video",
                    duration_seconds |-> duration,
                    estimated_time_seconds |-> estimated_time,
                    cost |-> estimated_cost]
        vfx_step == [step |-> 2,
                     tool |-> VFX_TOOL.tool,
                     workflow_type |-> "video_to_video",
                     duration_seconds |-> 0,
                     estimated_time_seconds |-> 30,
                     cost |-> VFX_TOOL.fixed_cost]
    IN  IF shot.requires_vfx
        THEN [steps |-> <<primary, vfx_step>>,
              total_cost |-> estimated_cost,
              total_time_seconds |-> estimated_time + 30,
              quality_score |-> tool_rec.score]
        ELSE [steps |-> <<primary>>,
              total_cost |-> estimated_cost,
              total_time_seconds |-> estimated_time,
              quality_score |-> tool_rec.score]

select_optimal_tool_for_shot(shot, constraints) ==
    LET cons == IF Truthy(constraints) THEN constraints ELSE EmptyDict
        quality_priority == Get(cons, "quality_priority", "balanced")
        duration == shot.duration_seconds
        shot_category == IF shot.shot_type \in DOMAIN SOTA_TOOL_RECOMMENDATIONS
                         THEN shot.shot_type ELSE "medium"
        tiers == SOTA_TOOL_RECOMMENDATIONS[shot_category]
        tool_rec == IF quality_priority \in DOMAIN tiers
                    THEN tiers[quality_priority] ELSE tiers["balanced"]
        estimated_cost == duration * tool_rec.cost_per_second
        estimated_time == 45 + (duration * 2)
        primary == [step |-> 1,
                    tool |-> tool_rec.tool,
                    workflow_type |-> IF duration > 5 THEN "text_to_video"
                                      ELSE "image_to_video",
                    duration_seconds |-> duration,
                    estimated_time_seconds |-> estimated_time,
                    cost |-> estimated_cost]
        vfx_step == [step |-> 2,
                     tool |-> VFX_TOOL.tool,
                     workflow_type |-> "video_to_video",
                     duration_seconds |-> 0,
                     estimated_time_seconds |-> 30,
                     cost |-> VFX_TOOL.fixed_cost]
    IN  IF shot.requires_vfx
        THEN [steps |-> <<primary, vfx_step>>,
              total_cost |-> estimated_cost + VFX_TOOL.fixed_cost,
              total_time_seconds |-> estimated_time + 30,
              quality_score |-> tool_rec.score]
        ELSE [steps |-> <<primary>>,
              total_cost |-> estimated_cost,
              total_time_seconds |-> estimated_time,
              quality_score |-> tool_rec.score]

\* one iteration of the loop over shot_list.shots
MakeShotPlan(shot, constraints) ==
    LET recommended == select_optimal_tool_for_shot(shot, constraints)
        budget_constraints ==
            DictUpdate(constraints, [quality_priority |-> "budget"])
        alternative == select_optimal_tool_for_shot(shot, budget_constraints)
    IN  [shot_number |-> shot.shot_number,
         recommended_workflow |-> recommended,
         alternative_workflows |->
             IF alternative.total_cost # recommended.total_cost
             THEN <<alternative>> ELSE <<>>]

\* every step of every recommended workflow, in loop order
RECURSIVE AllSteps(_)
AllSteps(shot_plans) ==
    IF shot_plans = <<>> THEN <<>>
    ELSE Head(shot_plans).recommended_workflow.steps \o AllSteps(Tail(shot_plans))

\* the tools of the steps in the order a dict first sees them as keys
RECURSIVE ToolsInOrder(_, _)
ToolsInOrder(steps, seen) ==
    IF steps = <<>> THEN <<>>
    ELSE IF Head(steps).tool \in seen THEN ToolsInOrder(Tail(steps), seen)
    ELSE <<Head(steps).tool>>
            \o ToolsInOrder(Tail(steps), seen \cup {Head(steps).tool})

\* mutant: only the primary step of each workflow is added to the spend map
ToolsUsed_PrimaryStepsOnly(steps) ==
    [t \in {steps[i].tool : i \in 1..Len(steps)} |->
        SumSeq([i \in 1..Len(steps) |->
                   IF steps[i].tool = t /\ steps[i].step = 1
                   THEN steps[i].cost ELSE 0])]

\* tools_used: the cost of every step, added up per tool
ToolsUsed(steps) ==
    [t \in {steps[i].tool : i \in 1..Len(steps)} |->
        SumSeq([i \in 1..Len(steps) |->
                   IF steps[i].tool = t THEN steps[i].cost ELSE 0])]

\* sorted(items, key=spend, reverse=True): largest spend first, equal spends
\* in their order of insertion
RECURSIVE SortedBySpend(_)
SortedBySpend(items) ==
    IF items = <<>> THEN <<>>
    ELSE LET top == CHOOSE i \in 1..Len(items) :
                        /\ \A j \in 1..Len(items) : items[j][2] <= items[i][2]
                        /\ \A j \in 1..(i - 1) : items[j][2] < items[i][2]
         IN  <<items[top]>>
                \o SortedBySpend(SubSeq(items, 1, top - 1)
                                 \o SubSeq(items, top + 1, Len(items)))

\* sorted(tools_used.items(), ...)[:3]
PrimaryTools(steps) ==
    LET order == ToolsInOrder(steps, {})
        sorted == SortedBySpend([i \in 1..Len(order) |->
                                    <<order[i], ToolsUsed(steps)[order[i]]>>])
    IN  SubSeq(sorted, 1, IF Len(sorted) < 3 THEN Len(sorted) ELSE 3)

\* mutant: the alternative workflows are added to the cost total
AssemblePlan_CountsAlternatives(shot_plans, steps, m) ==
    [mode |-> m,
     shot_plans |-> shot_plans,
     total_estimated_cost |->
         SumSeq([i \in 1..Len(shot_plans) |->
                    shot_plans[i].recommended_workflow.total_cost
                    + SumSeq([k \in 1..Len(shot_plans[i].alternative_workflows) |->
                                 shot_plans[i].alternative_workflows[k].total_cost])]),
     total_time_seconds |->
         SumSeq([i \in 1..Len(shot_plans) |->
                    shot_plans[i].recommended_workflow.total_time_seconds]),
     by_tool |-> ToolsUsed(steps),
     primary_tools |-> PrimaryTools(steps),
     workflow_types |->
         [text_to_video |->
              Cardinality({i \in 1..Len(shot_plans) :
                  shot_plans[i].recommended_workflow.steps[1].workflow_type
                      = "text_to_video"}),
          image_to_video |->
              Cardinality({i \in 1..Len(shot_plans) :
                  shot_plans[i].recommended_workflow.steps[1].workflow_type
                      = "image_to_video"}),
          video_to_video |->
              Cardinality({i \in 1..Len(steps) :
                  steps[i].workflow_type = "video_to_video"})]]

\* mutant: video_to_video is counted from the primary step of each shot
AssemblePlan_VideoFromPrimaryStep(shot_plans, steps, m) ==
    [mode |-> m,
     shot_plans |-> shot_plans,
     total_estimated_cost |->
         SumSeq([i \in 1..Len(shot_plans) |->
                    shot_plans[i].recommended_workflow.total_cost]),
     total_time_seconds |->
         SumSeq([i \in 1..Len(shot_plans) |->
                    shot_plans[i].recommended_workflow.total_time_seconds]),
     by_tool |-> ToolsUsed(steps),
     primary_tools |-> PrimaryTools(steps),
     workflow_types |->
         [text_to_video |->
              Cardinality({i \in 1..Len(shot_plans) :
                  shot_plans[i].recommended_workflow.steps[1].workflow_type
                      = "text_to_video"}),
          image_to_video |->
              Cardinality({i \in 1..Len(shot_plans) :
                  shot_plans[i].recommended_workflow.steps[1].workflow_type
                      = "image_to_video"}),
          video_to_video |->
              Cardinality({i \in 1..Len(shot_plans) :
                  shot_plans[i].recommended_workflow.steps[1].workflow_type
                      = "video_to_video"})]]

\* the ProductionPlan folded from the shot plans
AssemblePlan(shot_plans, steps, m) ==
    [mode |-> m,
     shot_plans |-> shot_plans,
     total_estimated_cost |->
         SumSeq([i \in 1..Len(shot_plans) |->
                    shot_plans[i].recommended_workflow.total_cost]),
     total_time_seconds |->
         SumSeq([i \in 1..Len(shot_plans) |->
                    shot_plans[i].recommended_workflow.total_time_seconds]),
     by_tool |-> ToolsUsed(steps),
     primary_tools |-> PrimaryTools(steps),
     workflow_types |->
         [text_to_video |->
              Cardinality({i \in 1..Len(shot_plans) :
                  shot_plans[i].recommended_workflow.steps[1].workflow_type
                      = "text_to_video"}),
          image_to_video |->
              Cardinality({i \in 1..Len(shot_plans) :
                  shot_plans[i].recommended_workflow.steps[1].workflow_type
                      = "image_to_video"}),
          video_to_video |->
              Cardinality({i \in 1..Len(steps) :
                  steps[i].workflow_type = "video_to_video"})]]

generate_production_plan(shots, constraints, m) ==
    LET cons == IF Truthy(constraints) THEN constraints
                ELSE [quality_priority |-> "balanced"]
    IN  Bind([i \in 1..Len(shots.shots) |-> MakeShotPlan(shots.shots[i], cons)],
             LAMBDA shot_plans :
                Bind(AllSteps(shot_plans),
                     LAMBDA steps : AssemblePlan(shot_plans, steps, m)))

(***************************************************************************)
(* Clarifying questions: tools/clarifying_questions.py                     *)
(***************************************************************************)
Question(key, priority) == [key |-> key, priority |-> priority]

\* mutant: the questions are left in the order they were appended
SortByPriority_Unsorted(questions) == questions

\* questions.sort(key=priority_order): a stable sort on high < medium < low
SortByPriority(questions) ==
    SelectSeq(questions, LAMBDA q : q.priority = "high")
        \o SelectSeq(questions, LAMBDA q : q.priority = "medium")
        \o SelectSeq(questions, LAMBDA q : q.priority = "low")

\* questions[:5]
FirstFive(questions) ==
    SubSeq(questions, 1, IF Len(questions) < 5 THEN Len(questions) ELSE 5)

\* mutant: only the questions about missing fields are asked
ask_clarifying_questions_OnlyGaps(rd, m) ==
    IF m = "yolo" THEN <<>>
    ELSE FirstFive(SortByPriority(
             (IF ~TruthyStr(Get(rd, "core_message", NoneStr))
              THEN <<Question("core_message", "high")>> ELSE <<>>)
          \o (IF ~TruthyStr(Get(rd, "tone", NoneStr))
              THEN <<Question("tone", "high")>> ELSE <<>>)
          \o (IF ~TruthyStr(Get(rd, "cta", NoneStr))
              THEN <<Question("cta", "high")>> ELSE <<>>)))

ask_clarifying_questions(rd, m) ==
    IF m = "yolo" THEN <<>>
    ELSE LET questions ==
                 (IF ~TruthyStr(Get(rd, "core_message", NoneStr))
                  THEN <<Question("core_message", "high")>> ELSE <<>>)
              \o (IF ~TruthyStr(Get(rd, "tone", NoneStr))
                  THEN <<Question("tone", "high")>> ELSE <<>>)
              \o <<Question("midpoint_emotion", "medium"),
                   Question("act2_emphasis", "medium"),
                   Question("visual_metaphors", "low")>>
              \o (IF ~TruthyStr(Get(rd, "cta", NoneStr))
                  THEN <<Question("cta", "high")>> ELSE <<>>)
         IN  FirstFive(SortByPriority(questions))

\* apply_clarifications_to_vrd: vrd.copy() raises AttributeError on None
apply_clarifications_to_vrd(rd, clar) ==
    IF rd = None
    THEN [raised |-> "AttributeError", vrd |-> None]
    ELSE [raised |-> "none", vrd |-> DictUpdate(rd, clar)]

(***************************************************************************)
(* Pipeline Orchestrator: workflows/production_orchestrator.py             *)
(* A method is an operator from the object o (and its arguments) to the    *)
(* object after the call and what the call returned or raised.             *)
(***************************************************************************)
Steps == {"vrd_input", "vrd_received", "awaiting_clarifications",
          "clarifications_received", "script_generated", "shots_generated",
          "plan_generated"}

\* a returned dict: its 'status', 'message', 'approval_required', 'questions';
\* 'validation' is None unless the method puts a report there
Returned(op, status, message, approval_required, questions) ==
    [op |-> op, raised |-> "none", status |-> status, message |-> message,
     approval_required |-> approval_required, questions |-> questions,
     validation |-> None]

\* an exception that left the call
Raised(op, exception) ==
    [op |-> op, raised |-> exception, status |-> "", message |-> "",
     approval_required |-> FALSE, questions |-> <<>>, validation |-> None]

\* ProductionOrchestrator.__init__
NewOrchestrator(m) ==
    [mode |-> m, vrd |-> None, clarifications |-> EmptyDict, script |-> None,
     shot_list |-> None, production_plan |-> None,
     current_step |-> "vrd_input", steps_completed |-> <<>>]

\* mutant: no questions are asked once clarifications are stored
set_vrd_TrustsClarifications(o, rd) ==
    LET o1 == [o EXCEPT !.vrd = rd,
                        !.current_step = "vrd_received",
                        !.steps_completed = Append(@, "vrd_input")]
        questions == ask_clarifying_questions(rd, o.mode)
    IN  IF o.mode = "hitl" /\ questions # <<>> /\ ~Truthy(o.clarifications)
        THEN [self |-> [o1 EXCEPT !.current_step = "awaiting_clarifications"],
              ret |-> Returned("set_vrd", "needs_clarification", "", FALSE,
                               questions)]
        ELSE [self |-> o1,
              ret |-> Returned("set_vrd", "ready_for_script", "", FALSE, <<>>)]

\* mutant: a new RD discards the stored Script and nothing else
set_vrd_ResetsScript(o, rd) ==
    LET o1 == [o EXCEPT !.vrd = rd,
                        !.script = None,
                        !.current_step = "vrd_received",
                        !.steps_completed = Append(@, "vrd_input")]
        questions == ask_clarifying_questions(rd, o.mode)
    IN  IF o.mode = "hitl" /\ questions # <<>>
        THEN [self |-> [o1 EXCEPT !.current_step = "awaiting_clarifications"],
              ret |-> Returned("set_vrd", "needs_clarification", "", FALSE,
                               questions)]
        ELSE [self |-> o1,
              ret |-> Returned("set_vrd", "ready_for_script", "", FALSE, <<>>)]

set_vrd(o, rd) ==
    LET o1 == [o EXCEPT !.vrd = rd,
                        !.current_step = "vrd_received",
                        !.steps_completed = Append(@, "vrd_input")]
        questions == ask_clarifying_questions(rd, o.mode)
    IN  IF o.mode = "hitl" /\ questions # <<>>
        THEN [self |-> [o1 EXCEPT !.current_step = "awaiting_clarifications"],
              ret |-> Returned("set_vrd", "needs_clarification", "", FALSE,
                               questions)]
        ELSE [self |-> o1,
              ret |-> Returned("set_vrd", "ready_for_script", "", FALSE, <<>>)]

provide_clarifications(o, clar) ==
    LET o1 == [o EXCEPT !.clarifications = clar]
        merged == apply_clarifications_to_vrd(o.vrd, clar)
    IN  IF merged.raised # "none"
        THEN [self |-> o1, ret |-> Raised("provide_clarifications", merged.raised)]
        ELSE [self |-> [o1 EXCEPT !.vrd = merged.vrd,
                                  !.current_step = "clarifications_received",
                                  !.steps_completed = Append(@, "clarifications")],
              ret |-> Returned("provide_clarifications", "ready_for_script", "",
                               FALSE, <<>>)]

\* mutant: a repeated call appends the new beats to the stored Script
generate_script_AppendsToStored(o) ==
    IF ~Truthy(o.vrd)
    THEN [self |-> o,
          ret |-> Returned("generate_script", "error", "VRD not set", FALSE, <<>>)]
    ELSE LET generated == generate_alt_beats(o.vrd, o.clarifications, o.mode)
         IN  IF generated.raised # "none"
             THEN [self |-> o, ret |-> Raised("generate_script", generated.raised)]
             ELSE [self |-> [o EXCEPT !.script =
                                          IF o.script = None THEN generated.script
                                          ELSE [generated.script EXCEPT !.beats =
                                                   o.script.beats \o @],
                                      !.current_step = "script_generated",
                                      !.steps_completed =
                                          Append(@, "script_generation")],
                   ret |-> Returned("generate_script", "script_generated", "",
                                    o.mode = "hitl", <<>>)]

generate_script(o) ==
    IF ~Truthy(o.vrd)
    THEN [self |-> o,
          ret |-> Returned("generate_script", "error", "VRD not set", FALSE, <<>>)]
    ELSE LET generated == generate_alt_beats(o.vrd, o.clarifications, o.mode)
         IN  IF generated.raised # "none"
             THEN [self |-> o, ret |-> Raised("generate_script", generated.raised)]
             ELSE [self |-> [o EXCEPT !.script = generated.script,
                                      !.current_step = "script_generated",
                                      !.steps_completed =
                                          Append(@, "script_generation")],
                   ret |-> [Returned("generate_script", "script_generated", "",
                                     o.mode = "hitl", <<>>)
                               EXCEPT !.validation =
                                   validate_alt_beats_timing(
                                       generated.script.beats,
                                       generated.script.duration_seconds)]]

\* mutant: the stage is recorded before the precondition is looked at
generate_shots_RecordsStageFirst(o) ==
    LET o1 == [o EXCEPT !.current_step = "shots_generated",
                        !.steps_completed = Append(@, "shot_generation")]
    IN  IF o.script = None
        THEN [self |-> o1,
              ret |-> Returned("generate_shots", "error", "Script not generated",
                               FALSE, <<>>)]
        ELSE [self |-> [o1 EXCEPT !.shot_list =
                                      generate_shot_list(o.script.beats, o.mode)],
              ret |-> Returned("generate_shots", "shots_generated", "",
                               o.mode = "hitl", <<>>)]

generate_shots(o) ==
    IF o.script = None
    THEN [self |-> o,
          ret |-> Returned("generate_shots", "error", "Script not generated",
                           FALSE, <<>>)]
    ELSE [self |-> [o EXCEPT !.shot_list =
                                 generate_shot_list(o.script.beats, o.mode),
                             !.current_step = "shots_generated",
                             !.steps_completed = Append(@, "shot_generation")],
          ret |-> Returned("generate_shots", "shots_generated", "",
                           o.mode = "hitl", <<>>)]

generate_plan(o, constraints) ==
    IF o.shot_list = None
    THEN [self |-> o,
          ret |-> Returned("generate_plan", "error", "Shot list not generated",
                           FALSE, <<>>)]
    ELSE [self |-> [o EXCEPT !.production_plan =
                                 generate_production_plan(o.shot_list,
                                                          constraints, o.mode),
                             !.current_step = "plan_generated",
                             !.steps_completed = Append(@, "plan_generation")],
          ret |-> Returned("generate_plan", "plan_generated", "",
                           o.mode = "hitl", <<>>)]

\* the return statement of execute_full_pipeline: self.script.total_beat_count
\* and the like raise AttributeError on None
PipelineResult(final) ==
    IF final.script = None \/ final.shot_list = None
       \/ final.production_plan = None
    THEN [self |-> final, ret |-> Raised("execute_full_pipeline", "AttributeError")]
    ELSE [self |-> final,
          ret |-> Returned("execute_full_pipeline", "pipeline_complete", "",
                           FALSE, <<>>)]

\* a stage result returned early by execute_full_pipeline
Early(stage_result) ==
    [self |-> stage_result.self,
     ret |-> [stage_result.ret EXCEPT !.op = "execute_full_pipeline"]]

\* mutant: the result of set_vrd is not looked at
execute_full_pipeline_NoClarificationGate(o, rd, constraints) ==
    Bind(set_vrd(o, rd), LAMBDA vrd_result :
      Bind(generate_script(vrd_result.self), LAMBDA script_result :
        IF script_result.ret.raised # "none"
        THEN Early(script_result)
        ELSE IF script_result.ret.approval_required /\ o.mode = "hitl"
        THEN Early(script_result)
        ELSE Bind(generate_shots(script_result.self), LAMBDA shots_result :
          IF shots_result.ret.approval_required /\ o.mode = "hitl"
          THEN Early(shots_result)
          ELSE Bind(generate_plan(shots_result.self, constraints),
                    LAMBDA plan_result : PipelineResult(plan_result.self)))))

execute_full_pipeline(o, rd, constraints) ==
    Bind(set_vrd(o, rd), LAMBDA vrd_result :
      IF vrd_result.ret.status = "needs_clarification" /\ o.mode = "hitl"
      THEN Early(vrd_result)
      ELSE Bind(generate_script(vrd_result.self), LAMBDA script_result :
        IF script_result.ret.raised # "none"
        THEN Early(script_result)
        ELSE IF script_result.ret.approval_required /\ o.mode = "hitl"
        THEN Early(script_result)
        ELSE Bind(generate_shots(script_result.self), LAMBDA shots_result :
          IF shots_result.ret.approval_required /\ o.mode = "hitl"
          THEN Early(shots_result)
          ELSE Bind(generate_plan(shots_result.self, constraints),
                    LAMBDA plan_result : PipelineResult(plan_result.self)))))

\* get_status
get_status(o) ==
    [mode |-> o.mode, current_step |-> o.current_step,
     steps_completed |-> o.steps_completed,
     has_vrd |-> o.vrd # None, has_script |-> o.script # None,
     has_shots |-> o.shot_list # None, has_plan |-> o.production_plan # None]


(***************************************************************************)
(* Inputs of the calls.                                                    *)
(***************************************************************************)
\* values of 'estimated_duration'
Dur1s == <<"1", "s">>
Dur0s == <<"0", "s">>
Dur60s == <<"6", "0", "s">>
DurAbc == <<"a", "b", "c">>

CompleteFields == [tone |-> "empowering", core_message |-> "X", cta |-> "Y"]

\* Requirements Documents: the empty mapping, ones that hold only a duration
\* (no core_message, no tone), complete ones, and a complete one without
\* 'estimated_duration'
RDInputs ==
    {EmptyDict,
     CompleteFields,
     DictUpdate(CompleteFields, [estimated_duration |-> Dur1s]),
     DictUpdate(CompleteFields, [estimated_duration |-> Dur60s]),
     [estimated_duration |-> Dur1s],
     [estimated_duration |-> Dur0s],
     [estimated_duration |-> DurAbc]}

ClarificationInputs ==
    {EmptyDict, [tone |-> "urgent"], [midpoint_emotion |-> "hopeful"]}

ConstraintInputs == {None, [quality_priority |-> "high_quality"]}

(***************************************************************************)
(* The state machine: one orchestrator, called by its client.              *)
(***************************************************************************)
\* the object held in the variables
Self ==
    [mode |-> mode, vrd |-> vrd, clarifications |-> clarifications,
     script |-> script, shot_list |-> shot_list,
     production_plan |-> production_plan, current_step |-> current_step,
     steps_completed |-> steps_completed]

NoCall == Returned("__init__", "", "", FALSE, <<>>)

\* no tool function has been called on its own
NoToolCall == [fn |-> "none"]

\* the call's effect on the object and its outcome become the next state
Commit(call) ==
    /\ Len(call.self.steps_completed) <= MaxSteps
    /\ mode' = call.self.mode
    /\ vrd' = call.self.vrd
    /\ clarifications' = call.self.clarifications
    /\ script' = call.self.script
    /\ shot_list' = call.self.shot_list
    /\ production_plan' = call.self.production_plan
    /\ current_step' = call.self.current_step
    /\ steps_completed' = call.self.steps_completed
    /\ result' = call.ret
    /\ UNCHANGED <<duration_input, timing, tool_call, tool_result>>

Init ==
    /\ \E m \in {"hitl", "yolo"} :
          /\ mode = m
          /\ vrd = NewOrchestrator(m).vrd
          /\ clarifications = NewOrchestrator(m).clarifications
          /\ script = NewOrchestrator(m).script
          /\ shot_list = NewOrchestrator(m).shot_list
          /\ production_plan = NewOrchestrator(m).production_plan
          /\ current_step = NewOrchestrator(m).current_step
          /\ steps_completed = NewOrchestrator(m).steps_completed
    /\ result = NoCall
    /\ duration_input = 0
    /\ timing = None
    /\ tool_call = NoToolCall
    /\ tool_result = None

\* set_vrd always appends to steps_completed, so a full list admits no call
\* (the first conjunct only spares computing calls that Commit would refuse)
SetVrd ==
    /\ Len(steps_completed) < MaxSteps
    /\ \E rd \in RDInputs : \E call \in {set_vrd(Self, rd)} : Commit(call)

ProvideClarifications ==
    \E clar \in ClarificationInputs :
        \E call \in {provide_clarifications(Self, clar)} : Commit(call)

GenerateScript == \E call \in {generate_script(Self)} : Commit(call)

GenerateShots == \E call \in {generate_shots(Self)} : Commit(call)

GeneratePlan ==
    \E constraints \in ConstraintInputs :
        \E call \in {generate_plan(Self, constraints)} : Commit(call)

ExecuteFullPipeline ==
    /\ Len(steps_completed) < MaxSteps
    /\ \E rd \in RDInputs, constraints \in ConstraintInputs :
        \E call \in {execute_full_pipeline(Self, rd, constraints)} : Commit(call)

Next ==
    \/ SetVrd
    \/ ProvideClarifications
    \/ GenerateScript
    \/ GenerateShots
    \/ GeneratePlan
    \/ ExecuteFullPipeline

Spec == Init /\ [][Next]_vars

(***************************************************************************)
(* The Timing Allocator on its own: every duration of the range is handed  *)
(* to calculate_eight_part_timing once.                                    *)
(***************************************************************************)
TimingInit ==
    /\ mode = "yolo"
    /\ vrd = None
    /\ clarifications = EmptyDict
    /\ script = None
    /\ shot_list = None
    /\ production_plan = None
    /\ current_step = "vrd_input"
    /\ steps_completed = <<>>
    /\ result = NoCall
    /\ duration_input \in (0 - MaxNegDuration)..MaxDuration
    /\ timing = None
    /\ tool_call = NoToolCall
    /\ tool_result = None

Allocate ==
    /\ timing = None
    /\ timing' = calculate_eight_part_timing(duration_input)
    /\ UNCHANGED <<orchestrator_vars, duration_input, tool_call, tool_result>>

TimingNext == Allocate

TimingSpec == TimingInit /\ [][TimingNext]_vars

(***************************************************************************)
(* The tool functions on their own: one call is drawn from the inputs      *)
(* below and the function it names is applied to its arguments.            *)
(***************************************************************************)
\* what a call returned, or the exception that left it
ToolReturn(value) == [raised |-> "none", value |-> value]
ToolRaise(exception) == [raised |-> exception, value |-> None]

\* the text "<N>s" of a duration
DurationText(seconds) == IntToDigits(seconds) \o <<"s">>

\* generate_alt_beats(vrd, clarifications, mode) on every duration of the
\* range, with and without a tone in the RD, with each clarification mapping
GenerateAltBeatsCalls ==
    {[fn |-> "generate_alt_beats",
      vrd |-> DictUpdate(base, [estimated_duration |-> DurationText(seconds)]),
      clarifications |-> clar,
      mode |-> "yolo"] :
        seconds \in 0..MaxDuration,
        base \in {EmptyDict, [tone |-> "empowering"]},
        clar \in ClarificationInputs}

\* a valid Beat spanning start..end: the hook template satisfies the model
BeatInput(start, end, beat_number) ==
    generate_alt_beat("hook", start, end, beat_number, EmptyDict, EmptyDict)

\* the spans start < end within 0..MaxBeatEnd
SpanInputs ==
    {span \in (0..MaxBeatEnd) \X (0..MaxBeatEnd) : span[1] < span[2]}

\* beat lists of zero, one and two beats
BeatListInputs ==
    {<<>>}
    \cup {<<BeatInput(a[1], a[2], 1)>> : a \in SpanInputs}
    \cup {<<BeatInput(a[1], a[2], 1), BeatInput(b[1], b[2], 2)>> :
              a \in SpanInputs, b \in SpanInputs}

\* validate_alt_beats_timing(beats, target_duration)
ValidateTimingCalls ==
    {[fn |-> "validate_alt_beats_timing", beats |-> beats,
      target_duration |-> target] :
        beats \in BeatListInputs, target \in 1..(2 * MaxBeatEnd)}

\* a valid Beat of any segment: the segment's template with a camera
\* movement the model accepts
BeatAt(position, start, end, beat_number) ==
    [generate_alt_beat(position, start, end, beat_number, EmptyDict, EmptyDict)
        EXCEPT !.camera_movement = "static"]

\* generate_shot_list(alt_beats, mode): one beat of each segment and length,
\* and lists of a hook beat followed by a climax beat
GenerateShotListCalls ==
    {[fn |-> "generate_shot_list",
      beats |-> <<BeatAt(position, 0, seconds, 1)>>,
      mode |-> "yolo"] :
        position \in Positions, seconds \in 1..MaxBeatDuration}
    \cup {[fn |-> "generate_shot_list",
            beats |-> <<BeatAt("hook", 0, first, 1),
                        BeatAt("climax", first, first + second, 2)>>,
            mode |-> "yolo"] :
              first \in 1..MaxPairDuration, second \in 1..MaxPairDuration}

\* a Shot of the given type, length and VFX flag
ShotInput(shot_type, seconds, requires_vfx) ==
    [generate_shot_from_beat(BeatAt("hook", 0, seconds, 1), 1, seconds, 0)
        EXCEPT !.shot_type = shot_type, !.requires_vfx = requires_vfx]

\* the constraints argument: absent, empty, each tier, an unknown tier
ToolConstraintInputs ==
    {None, EmptyDict, [quality_priority |-> "premium"]}
    \cup {[quality_priority |-> tier] :
              tier \in {"high_quality", "balanced", "budget"}}

\* select_optimal_tool_for_shot(shot, constraints): every shot type of the
\* data model and one that is none of them
SelectToolCalls ==
    {[fn |-> "select_optimal_tool_for_shot",
      shot |-> ShotInput(shot_type, seconds, requires_vfx),
      constraints |-> constraints] :
        shot_type \in ShotType \cup {"aerial"},
        seconds \in 1..MaxShotDuration,
        requires_vfx \in BOOLEAN,
        constraints \in ToolConstraintInputs}

\* a ShotList of four VFX shots of four shot types and growing length
MixedShotList(seconds) ==
    AssembleShotList(<<ShotInput("extreme_wide", seconds, TRUE),
                       ShotInput("wide", seconds + 1, TRUE),
                       ShotInput("closeup", seconds + 2, TRUE),
                       ShotInput("medium", seconds + 3, TRUE)>>,
                     <<BeatAt("hook", 0, (4 * seconds) + 6, 1)>>, "yolo")

\* generate_production_plan(shot_list, constraints, mode) on the ShotList of
\* each beat list above and on the mixed ShotLists
GeneratePlanCalls ==
    {[fn |-> "generate_production_plan",
      shot_list |-> generate_shot_list(call.beats, call.mode),
      constraints |-> constraints,
      mode |-> call.mode] :
        call \in GenerateShotListCalls, constraints \in ToolConstraintInputs}
    \cup {[fn |-> "generate_production_plan",
            shot_list |-> MixedShotList(seconds),
            constraints |-> constraints,
            mode |-> "yolo"] :
              seconds \in 1..MaxShotDuration,
              constraints \in ToolConstraintInputs}

\* a field of the RD is absent, empty or filled
FieldInputs(key) == {EmptyDict, [k \in {key} |-> ""], [k \in {key} |-> "X"]}

\* ask_clarifying_questions(vrd, mode)
AskQuestionsCalls ==
    {[fn |-> "ask_clarifying_questions",
      vrd |-> DictUpdate(DictUpdate(core_message, tone), cta),
      mode |-> m] :
        core_message \in FieldInputs("core_message"),
        tone \in FieldInputs("tone"),
        cta \in FieldInputs("cta"),
        m \in {"hitl", "yolo"}}

ToolCalls ==
    GenerateAltBeatsCalls \cup ValidateTimingCalls \cup GenerateShotListCalls
        \cup SelectToolCalls \cup GeneratePlanCalls \cup AskQuestionsCalls

ToolsInit ==
    /\ mode = "yolo"
    /\ vrd = None
    /\ clarifications = EmptyDict
    /\ script = None
    /\ shot_list = None
    /\ production_plan = None
    /\ current_step = "vrd_input"
    /\ steps_completed = <<>>
    /\ result = NoCall
    /\ duration_input = 0
    /\ timing = None
    /\ tool_call \in ToolCalls
    /\ tool_result = None

\* the outcome of the drawn call is recorded
Apply(outcome) ==
    /\ tool_result = None
    /\ tool_result' = outcome
    /\ UNCHANGED <<orchestrator_vars, duration_input, timing, tool_call>>

GenerateAltBeats ==
    /\ tool_call.fn = "generate_alt_beats"
    /\ \E generated \in {generate_alt_beats(tool_call.vrd,
                                            tool_call.clarifications,
                                            tool_call.mode)} :
          Apply(IF generated.raised = "none"
                THEN ToolReturn(generated.script)
                ELSE ToolRaise(generated.raised))

ValidateTiming ==
    /\ tool_call.fn = "validate_alt_beats_timing"
    /\ Apply(ToolReturn(validate_alt_beats_timing(tool_call.beats,
                                                  tool_call.target_duration)))

GenerateShotList ==
    /\ tool_call.fn = "generate_shot_list"
    /\ Apply(ToolReturn(generate_shot_list(tool_call.beats, tool_call.mode)))

SelectTool ==
    /\ tool_call.fn = "select_optimal_tool_for_shot"
    /\ Apply(ToolReturn(select_optimal_tool_for_shot(tool_call.shot,
                                                     tool_call.constraints)))

GenerateProductionPlan ==
    /\ tool_call.fn = "generate_production_plan"
    /\ Apply(ToolReturn(generate_production_plan(tool_call.shot_list,
                                                 tool_call.constraints,
                                                 tool_call.mode)))

AskQuestions ==
    /\ tool_call.fn = "ask_clarifying_questions"
    /\ Apply(ToolReturn(ask_clarifying_questions(tool_call.vrd, tool_call.mode)))

ToolsNext ==
    \/ AskQuestions
    \/ GenerateAltBeats
    \/ ValidateTiming
    \/ GenerateShotList
    \/ SelectTool
    \/ GenerateProductionPlan

ToolsSpec == ToolsInit /\ [][ToolsNext]_vars


(***************************************************************************)
(* Properties.                                                             *)
(***************************************************************************)
ExecuteOp == "execute_full_pipeline"

\* the object is as __init__ left it
Fresh ==
    /\ vrd = None
    /\ clarifications = EmptyDict
    /\ script = None
    /\ shot_list = None
    /\ production_plan = None
    /\ current_step = "vrd_input"
    /\ steps_completed = <<>>

\* the call of this step changed nothing the orchestrator holds
StateUnchanged ==
    UNCHANGED <<vrd, clarifications, script, shot_list, production_plan,
                current_step, steps_completed>>

\* the last call returned the error result with this message
ReturnedError(message) ==
    /\ result.raised = "none"
    /\ result.status = "error"
    /\ result.message = message

\* C1: a stage invoked before its dependency exists returns status 'error'
\* with its fixed message ('VRD not set', 'Script not generated', 'Shot list
\* not generated') and leaves current_step, steps_completed and the stored
\* RD, Script, ShotList and ProductionPlan as they were.
C1_PreconditionErrors ==
    [][/\ (result'.op = "generate_script" /\ vrd = None)
            => (ReturnedError("VRD not set")' /\ StateUnchanged)
       /\ (result'.op = "generate_shots" /\ script = None)
            => (ReturnedError("Script not generated")' /\ StateUnchanged)
       /\ (result'.op = "generate_plan" /\ shot_list = None)
            => (ReturnedError("Shot list not generated")' /\ StateUnchanged)]_vars

\* generate_shots() was called on an orchestrator that holds an RD but no
\* Script, and returned the error
C1_Witness ==
    /\ result.op = "generate_shots"
    /\ result.status = "error"
    /\ vrd # None
    /\ script = None

LacksCoreMessageAndTone(rd) ==
    /\ rd # None
    /\ "core_message" \notin DOMAIN rd
    /\ "tone" \notin DOMAIN rd

\* C2: in human-in-the-loop mode execute_full_pipeline on an RD without
\* core_message and tone returns 'needs_clarification' and ends in
\* awaiting_clarifications without generating anything: the Script, ShotList
\* and ProductionPlan are untouched by the call, so a fresh orchestrator
\* holds none of them afterwards.
C2_ClarificationBeforeScript ==
    [][(mode = "hitl" /\ result'.op = ExecuteOp /\ LacksCoreMessageAndTone(vrd'))
          => /\ result'.raised = "none"
             /\ result'.status = "needs_clarification"
             /\ current_step' = "awaiting_clarifications"
             /\ UNCHANGED <<script, shot_list, production_plan>>
             /\ Fresh => (script' = None /\ shot_list' = None
                          /\ production_plan' = None)]_vars

C2_Witness ==
    /\ mode = "hitl"
    /\ result.op = ExecuteOp
    /\ result.status = "needs_clarification"
    /\ LacksCoreMessageAndTone(vrd)
    /\ "estimated_duration" \in DOMAIN vrd
    /\ script = None
    /\ current_step = "awaiting_clarifications"

\* an RD whose 'estimated_duration' reads "<N>s" with N a positive integer
WellFormedRD(rd) ==
    /\ rd # None
    /\ "estimated_duration" \in DOMAIN rd
    /\ ParseDuration(rd).raised = "none"
    /\ ParseDuration(rd).value > 0

\* C3: in full-auto mode one execute_full_pipeline call on a fresh
\* orchestrator with a well-formed RD returns 'pipeline_complete' with
\* Script, ShotList and ProductionPlan stored, current_step plan_generated
\* and steps_completed exactly the four stages.
C3_FullAutoCompletes ==
    [][(Fresh /\ mode = "yolo" /\ result'.op = ExecuteOp /\ WellFormedRD(vrd'))
          => /\ result'.raised = "none"
             /\ result'.status = "pipeline_complete"
             /\ script' # None /\ shot_list' # None /\ production_plan' # None
             /\ current_step' = "plan_generated"
             /\ steps_completed' = <<"vrd_input", "script_generation",
                                     "shot_generation", "plan_generation">>]_vars

\* C4: in human-in-the-loop mode, whatever the RD and the state before, one
\* execute_full_pipeline call returns a result that asks for clarification
\* or approval, never 'pipeline_complete', and leaves the stored ShotList
\* and ProductionPlan as they were.
C4_NoGateBypass ==
    [][(mode = "hitl" /\ result'.op = ExecuteOp)
          => /\ result'.raised = "none"
             /\ (result'.status = "needs_clarification"
                 \/ result'.approval_required)
             /\ result'.status # "pipeline_complete"
             /\ UNCHANGED <<shot_list, production_plan>>]_vars

\* execute_full_pipeline was called in human-in-the-loop mode on an
\* orchestrator that already held a ShotList and a ProductionPlan
C4_Witness ==
    /\ mode = "hitl"
    /\ result.op = ExecuteOp
    /\ result.status = "needs_clarification"
    /\ shot_list # None
    /\ production_plan # None

\* C5: in human-in-the-loop mode, while current_step is
\* awaiting_clarifications, no call other than provide_clarifications moves
\* current_step or stores a Script.
C5_ClarificationGateSuspends ==
    [][(mode = "hitl" /\ current_step = "awaiting_clarifications"
        /\ result'.op # "provide_clarifications")
          => /\ current_step' = "awaiting_clarifications"
             /\ script' = script]_vars

\* C6: provide_clarifications before any RD is set returns an error status
\* instead of raising, and leaves RD, clarifications, current_step and
\* steps_completed unchanged.
C6_ClarificationsWithoutRD ==
    [][(vrd = None /\ result'.op = "provide_clarifications")
          => /\ result'.raised = "none"
             /\ result'.status = "error"
             /\ UNCHANGED <<vrd, clarifications, current_step,
                            steps_completed>>]_vars

\* C7: in full-auto mode on a fresh orchestrator, execute_full_pipeline with
\* the empty RD (the script stage answers 'VRD not set') returns status
\* 'error' with a message, not an exception and not 'pipeline_complete', and
\* records no later stage as completed.
C7_StageFailureIsStructured ==
    [][(Fresh /\ mode = "yolo" /\ result'.op = ExecuteOp /\ vrd' = EmptyDict)
          => /\ result'.raised = "none"
             /\ result'.status = "error"
             /\ result'.message # ""
             /\ steps_completed' = <<"vrd_input">>]_vars

\* 'estimated_duration' is absent, or is not digits followed by 's'
DurationMissingOrNonNumeric(rd) ==
    \/ "estimated_duration" \notin DOMAIN rd
    \/ LET d == rd["estimated_duration"]
       IN  ~(Len(d) >= 2 /\ d[Len(d)] = "s"
             /\ AllDigits(SubSeq(d, 1, Len(d) - 1)))

\* C8: a generate_script call on an RD whose estimated_duration is missing
\* or non-numeric stops at the duration (the ValueError of the conversion)
\* before any timing allocation is computed, stores no Script and does not
\* reach script_generated.
C8_BadDurationFailsFast ==
    (result.op = "generate_script" /\ Truthy(vrd)
     /\ DurationMissingOrNonNumeric(vrd))
        => /\ ParseDuration(vrd).raised # "none"
           /\ result.raised = "ValueError"

\* C9: no Script (with the segment mapping it records) is ever built from a
\* total duration that is not positive.
C9_NonPositiveDurationRejected ==
    script # None => script.duration_seconds > 0

\* the segments of non-zero length, in segment order
NonEmptySegments(spans) ==
    SelectSeq(PositionOrder, LAMBDA p : spans[p][2] # spans[p][1])

\* each span starts where the previous one ends, or later
SpansNonOverlapping(spans) ==
    LET kept == NonEmptySegments(spans)
    IN  \A i \in 1..(Len(kept) - 1) :
            spans[kept[i + 1]][1] >= spans[kept[i]][2]

\* the spans cover the seconds 0 .. D-1 and nothing else
SpansCover(spans, D) ==
    {t \in (0 - 1)..(D + 3) :
        \E p \in Positions : spans[p][1] <= t /\ t < spans[p][2]} = 0..(D - 1)

\* C10: for every total duration D >= 20 the eight spans, zero-length ones
\* ignored, are non-overlapping and non-decreasing in segment order and
\* their union is [0, D).
C10_SpansPartitionDuration ==
    (timing # None /\ duration_input >= 20)
        => /\ SpansNonOverlapping(timing)
           /\ SpansCover(timing, duration_input)

\* every beat lasts end - start > 0 seconds, the beats are numbered 1..n and
\* their durations sum to D within 5 seconds
BeatsWellFormed(beats, D) ==
    /\ \A i \in 1..Len(beats) :
          /\ beats[i].duration_seconds = beats[i].end - beats[i].start
          /\ beats[i].duration_seconds > 0
          /\ beats[i].sequence_order = i
    /\ Abs(SumSeq([i \in 1..Len(beats) |-> beats[i].duration_seconds]) - D) <= 5

\* C11: for every positive target duration D the beats the Beat Generator
\* computes (the arguments it hands to the Beat constructor) last
\* end - start > 0 seconds each, are numbered 1..n without gaps and sum to D
\* within 5 seconds; and whenever a Script is built, its beats are those
\* beats and total_beat_count is their number.
C11_ScriptTimingInvariants ==
    (tool_call.fn = "generate_alt_beats" /\ tool_result # None
     /\ ParseDuration(tool_call.vrd).value >= 1)
        => LET D == ParseDuration(tool_call.vrd).value
               beats == BuildBeats(calculate_eight_part_timing(D),
                                   tool_call.vrd, tool_call.clarifications)
           IN  /\ BeatsWellFormed(beats, D)
               /\ tool_result.raised = "none"
                    => /\ tool_result.value.beats = beats
                       /\ tool_result.value.total_beat_count = Len(beats)
                       /\ tool_result.value.duration_seconds = D

\* a Script was built for a positive duration: it holds the hook and the
\* climax beat
C11_Witness ==
    /\ tool_call.fn = "generate_alt_beats"
    /\ tool_result # None
    /\ tool_result.raised = "none"
    /\ tool_result.value.duration_seconds >= 1
    /\ Len(tool_result.value.beats) = 2

\* C12: the Timing Validator's 'valid' flag is true exactly when the beat
\* durations sum to the target within 5 seconds; gaps between adjacent beats
\* are reported as issues but do not make the report invalid.
C12_ValidIffWithinTolerance ==
    (tool_call.fn = "validate_alt_beats_timing" /\ tool_result # None)
        => LET report == tool_result.value
               total == SumSeq([i \in 1..Len(tool_call.beats) |->
                                   tool_call.beats[i].duration_seconds])
           IN  /\ report.valid <=> (Abs(total - tool_call.target_duration) <= 5)
               /\ (total = tool_call.target_duration) => report.valid
               /\ (Abs(total - tool_call.target_duration) = 6)
                    => (~report.valid /\ Len(report.issues) >= 1)

\* the shots that reference the beat, in shot order
ShotsOfBeat(shots, beat) ==
    SelectSeq(shots, LAMBDA shot : shot.beat_ref = beat.beat_id)

\* C13: for every beat of duration d >= 1 the Shot Deriver emits
\* max(1, round(d/6)) shots that reference the beat, every shot lasts a
\* positive number of seconds, every shot but the last of the group lasts
\* d // n seconds, and the group sums to d; so the shot durations of the
\* ShotList sum to the beat durations.
C13_ShotsConserveDuration ==
    (tool_call.fn = "generate_shot_list" /\ tool_result # None)
        => LET shots == tool_result.value.shots
               beats == tool_call.beats
           IN  /\ \A b \in 1..Len(beats) :
                     LET d == beats[b].duration_seconds
                         n == Max(1, RoundDiv6(d))
                         group == ShotsOfBeat(shots, beats[b])
                     IN  /\ Len(group) = n
                         /\ \A k \in 1..n : group[k].duration_seconds >= 1
                         /\ \A k \in 1..(n - 1) :
                               group[k].duration_seconds = d \div n
                         /\ SumSeq([k \in 1..n |-> group[k].duration_seconds]) = d
               /\ SumSeq([i \in 1..Len(shots) |-> shots[i].duration_seconds])
                    = SumSeq([b \in 1..Len(beats) |-> beats[b].duration_seconds])
               /\ tool_result.value.total_shots = Len(shots)

\* a beat was split into three or more shots and the last one took a
\* remainder
C13_Witness ==
    /\ tool_call.fn = "generate_shot_list"
    /\ tool_result # None
    /\ Len(tool_call.beats) = 1
    /\ Len(tool_result.value.shots) >= 3
    /\ tool_result.value.shots[Len(tool_result.value.shots)].duration_seconds
         > tool_result.value.shots[1].duration_seconds

\* C14: for every shot type (in the lookup table or not), quality tier, shot
\* duration and value of requires_vfx, the Workflow's total_cost is the sum
\* of its steps' costs (in cents), its total_time_seconds is the sum of its
\* steps' estimated times, and it has two steps when requires_vfx is set and
\* one otherwise.
C14_WorkflowTotalsAdditive ==
    (tool_call.fn = "select_optimal_tool_for_shot" /\ tool_result # None)
        => LET workflow == tool_result.value
               steps == workflow.steps
           IN  /\ workflow.total_cost
                    = SumSeq([i \in 1..Len(steps) |-> steps[i].cost])
               /\ workflow.total_time_seconds
                    = SumSeq([i \in 1..Len(steps) |->
                                 steps[i].estimated_time_seconds])
               /\ Len(steps) = IF tool_call.shot.requires_vfx THEN 2 ELSE 1

\* a VFX shot of a type the lookup table does not hold got its workflow from
\* a named tier
C14_Witness ==
    /\ tool_call.fn = "select_optimal_tool_for_shot"
    /\ tool_result # None
    /\ tool_call.shot.requires_vfx
    /\ tool_call.shot.shot_type \notin DOMAIN SOTA_TOOL_RECOMMENDATIONS
    /\ tool_call.constraints = [quality_priority |-> "high_quality"]
    /\ Len(tool_result.value.steps) = 2
    /\ tool_result.value.total_cost > tool_result.value.steps[1].cost

\* C15: the ProductionPlan has exactly one ShotPlan per shot, in shot order,
\* and its total estimated cost (in cents) is the sum of the ShotPlans'
\* recommended-workflow total_cost; alternative workflows add nothing to it.
C15_PlanCostIsSumOfRecommended ==
    (tool_call.fn = "generate_production_plan" /\ tool_result # None)
        => LET plan == tool_result.value
               shots == tool_call.shot_list.shots
           IN  /\ Len(plan.shot_plans) = Len(shots)
               /\ \A i \in 1..Len(shots) :
                     plan.shot_plans[i].shot_number = shots[i].shot_number
               /\ plan.total_estimated_cost
                    = SumSeq([i \in 1..Len(plan.shot_plans) |->
                                 plan.shot_plans[i].recommended_workflow.total_cost])

\* a plan over several shots in which a shot has a budget alternative of a
\* different cost
C15_Witness ==
    /\ tool_call.fn = "generate_production_plan"
    /\ tool_result # None
    /\ Len(tool_result.value.shot_plans) >= 3
    /\ \E i \in 1..Len(tool_result.value.shot_plans) :
          tool_result.value.shot_plans[i].alternative_workflows # <<>>
    /\ tool_result.value.total_estimated_cost > 0

\* C16: a generate_script call that directly follows a successful
\* generate_script call on the same orchestrator (same RD and clarifications,
\* nothing in between) succeeds again and stores a Script with the same
\* beats (timing, segment labels, template fields), duration and tone.
C16_GenerateScriptIdempotent ==
    [][(result.op = "generate_script" /\ result.status = "script_generated"
        /\ result'.op = "generate_script")
          => /\ result'.status = "script_generated"
             /\ vrd' = vrd /\ clarifications' = clarifications
             /\ script'.beats = script.beats
             /\ script'.eight_part_breakdown = script.eight_part_breakdown
             /\ script'.duration_seconds = script.duration_seconds
             /\ script'.tone = script.tone]_vars

\* generate_script succeeded twice in a row and the Script holds beats
C16_Witness ==
    /\ result.op = "generate_script"
    /\ result.status = "script_generated"
    /\ Len(steps_completed) >= 2
    /\ steps_completed[Len(steps_completed)] = "script_generation"
    /\ steps_completed[Len(steps_completed) - 1] = "script_generation"
    /\ Len(script.beats) = 2

\* C17: once a Script has been generated, no later operation changes the
\* stored Requirements Document.
C17_RDImmutableAfterScript ==
    [][script # None => vrd' = vrd]_vars

\* the tone the Beat Generator is to use: the clarifications' tone if they
\* hold one, else the RD's, else 'professional'
ExpectedTone(rd, clar) ==
    IF "tone" \in DOMAIN clar THEN clar["tone"]
    ELSE IF "tone" \in DOMAIN rd THEN rd["tone"]
    ELSE "professional"

\* C18: a generated Script and its beats carry the clarifications' tone if
\* there is one, else the RD's, else 'professional'; and non-empty
\* clarifications without a 'tone' key do not make generation fail: it
\* succeeds whenever it succeeds for the same RD without clarifications.
C18_ToneFallback ==
    (tool_call.fn = "generate_alt_beats" /\ tool_result # None)
        => LET rd == tool_call.vrd
               clar == tool_call.clarifications
           IN  /\ tool_result.raised = "none"
                    => /\ tool_result.value.tone = ExpectedTone(rd, clar)
                       /\ \A i \in 1..Len(tool_result.value.beats) :
                             tool_result.value.beats[i].music_mood
                                 = ExpectedTone(rd, clar)
               /\ (Truthy(clar) /\ "tone" \notin DOMAIN clar
                   /\ generate_alt_beats(rd, EmptyDict, tool_call.mode).raised
                        = "none")
                    => tool_result.raised = "none"

\* C19: current_step starts as vrd_input, only ever holds one of the seven
\* step names, and plan_generated is terminal: no operation moves
\* current_step away from it.
C19_PlanGeneratedTerminal ==
    [][/\ (steps_completed = <<>> /\ result = NoCall)
            => current_step = "vrd_input"
       /\ current_step' \in {"vrd_input", "vrd_received",
                             "awaiting_clarifications",
                             "clarifications_received", "script_generated",
                             "shots_generated", "plan_generated"}
       /\ current_step = "plan_generated"
            => current_step' = "plan_generated"]_vars

\* the keys of the questions, and the rank of a priority in the ordering
QuestionKeys(questions) == {questions[i].key : i \in 1..Len(questions)}
PriorityRank(priority) ==
    CASE priority = "high" -> 0 [] priority = "medium" -> 1 [] OTHER -> 2

\* the candidate questions of an RD: the three that are always asked and one
\* per missing or empty field
CandidateQuestions(rd) ==
    {Question("midpoint_emotion", "medium"), Question("act2_emphasis", "medium"),
     Question("visual_metaphors", "low")}
    \cup {Question(key, "high") :
            key \in {k \in {"core_message", "tone", "cta"} :
                        ~TruthyStr(Get(rd, k, NoneStr))}}

\* C20: in full-auto mode the clarifying-questions generator returns the
\* empty list; in human-in-the-loop mode it returns at most 5 candidate
\* questions, every 'high' before every 'medium' before every 'low', as many
\* as there are candidates up to 5, and a dropped candidate never has a
\* higher priority than a returned one.
C20_QuestionsBoundedAndOrdered ==
    (tool_call.fn = "ask_clarifying_questions" /\ tool_result # None)
        => LET questions == tool_result.value
               candidates == CandidateQuestions(tool_call.vrd)
               returned == {questions[i] : i \in 1..Len(questions)}
           IN  IF tool_call.mode = "yolo" THEN questions = <<>>
               ELSE /\ Len(questions) <= 5
                    /\ returned \subseteq candidates
                    /\ Cardinality(returned) = Len(questions)
                    /\ Len(questions) =
                         (IF Cardinality(candidates) < 5
                          THEN Cardinality(candidates) ELSE 5)
                    /\ \A i \in 1..Len(questions), j \in 1..Len(questions) :
                          i < j => PriorityRank(questions[i].priority)
                                     <= PriorityRank(questions[j].priority)
                    /\ \A dropped \in candidates \ returned, kept \in returned :
                          PriorityRank(dropped.priority)
                              >= PriorityRank(kept.priority)

\* six candidates existed and the low-priority one was dropped
C20_Witness ==
    /\ tool_call.fn = "ask_clarifying_questions"
    /\ tool_result # None
    /\ tool_call.mode = "hitl"
    /\ Cardinality(CandidateQuestions(tool_call.vrd)) = 6
    /\ Len(tool_result.value) = 5
    /\ "visual_metaphors" \notin QuestionKeys(tool_result.value)
    /\ "cta" \in QuestionKeys(tool_result.value)

\* C21: in full-auto mode an RD whose estimated_duration is 60 s or more
\* yields, in one execute_full_pipeline call, a Script of exactly 8 beats
\* whose durations sum to the target within 5 seconds, a ShotList with
\* total_shots >= 8 and a ProductionPlan with a total estimated cost > 0.
C21_SixtySecondScenario ==
    [][(mode = "yolo" /\ result'.op = ExecuteOp
        /\ "estimated_duration" \in DOMAIN vrd'
        /\ ParseDuration(vrd').raised = "none"
        /\ ParseDuration(vrd').value >= 60)
          => /\ result'.raised = "none"
             /\ script' # None /\ shot_list' # None /\ production_plan' # None
             /\ script'.duration_seconds = ParseDuration(vrd').value
             /\ Len(script'.beats) = 8
             /\ Abs(SumSeq([i \in 1..Len(script'.beats) |->
                               script'.beats[i].duration_seconds])
                    - script'.duration_seconds) <= 5
             /\ shot_list'.total_shots >= 8
             /\ production_plan'.total_estimated_cost > 0]_vars

\* C22: every shot shorter than 4 seconds gets camera movement 'static',
\* whatever its segment; a shot of the midpoint or climax segment gets a slow
\* push or a dolly only when it lasts 4 seconds or more.
C22_ShortShotsAreStatic ==
    (tool_call.fn = "generate_shot_list" /\ tool_result # None)
        => \A i \in 1..Len(tool_result.value.shots) :
              LET shot == tool_result.value.shots[i]
              IN  /\ shot.duration_seconds < 4
                       => shot.camera_movement = "static"
                  /\ (shot.position \in {"midpoint", "climax"}
                      /\ shot.camera_movement \in {"slow_push", "dolly"})
                       => shot.duration_seconds >= 4

\* C23: through beat generation, shot derivation and tool selection, a
\* shot's recommended workflow holds the second, fixed-cost VFX step (30 s,
\* video_to_video) exactly when the shot derives from a beat of segment
\* hook, midpoint or climax; every other shot's workflow has one step.
C23_VfxStepIffVfxSegment ==
    (tool_call.fn = "generate_production_plan" /\ tool_result # None)
        => \A i \in 1..Len(tool_call.shot_list.shots) :
              LET shot == tool_call.shot_list.shots[i]
                  steps == tool_result.value.shot_plans[i]
                               .recommended_workflow.steps
              IN  IF shot.position \in {"hook", "midpoint", "climax"}
                  THEN /\ Len(steps) = 2
                       /\ steps[2].workflow_type = "video_to_video"
                       /\ steps[2].estimated_time_seconds = 30
                       /\ steps[2].cost = VFX_TOOL.fixed_cost
                       /\ steps[1].workflow_type # "video_to_video"
                  ELSE /\ Len(steps) = 1
                       /\ steps[1].workflow_type # "video_to_video"

\* a plan over several shots, the first derived from a hook beat, with the
\* VFX step in its workflow
C23_Witness ==
    /\ tool_call.fn = "generate_production_plan"
    /\ tool_result # None
    /\ Len(tool_call.shot_list.shots) >= 2
    /\ tool_call.shot_list.shots[1].position = "hook"
    /\ Len(tool_result.value.shot_plans[1].recommended_workflow.steps) = 2

\* C24: in every ProductionPlan the counts by workflow type satisfy
\* text_to_video + image_to_video = number of shots, with text_to_video the
\* number of shots longer than 5 seconds, and video_to_video = number of
\* shots that require VFX.
C24_WorkflowTypeCounts ==
    (tool_call.fn = "generate_production_plan" /\ tool_result # None)
        => LET shots == tool_call.shot_list.shots
               counts == tool_result.value.workflow_types
           IN  /\ counts.text_to_video + counts.image_to_video = Len(shots)
               /\ counts.text_to_video
                    = Cardinality({i \in 1..Len(shots) :
                                      shots[i].duration_seconds > 5})
               /\ counts.video_to_video
                    = Cardinality({i \in 1..Len(shots) : shots[i].requires_vfx})

\* a plan with shots of both primary workflow types and with VFX shots
C24_Witness ==
    /\ tool_call.fn = "generate_production_plan"
    /\ tool_result # None
    /\ tool_result.value.workflow_types.text_to_video >= 1
    /\ tool_result.value.workflow_types.image_to_video >= 1
    /\ tool_result.value.workflow_types.video_to_video >= 2

\* C25: in every reachable state the stored aggregates form a chain: a
\* ProductionPlan is stored only if a ShotList is, a ShotList only if a
\* Script is, a Script only if an RD is; get_status reports the same.
C25_AggregatesFormChain ==
    /\ production_plan # None => shot_list # None
    /\ shot_list # None => script # None
    /\ script # None => vrd # None
    /\ get_status(Self).has_plan => get_status(Self).has_shots
    /\ get_status(Self).has_shots => get_status(Self).has_script
    /\ get_status(Self).has_script => get_status(Self).has_vrd

\* all four aggregates are stored and a new RD has just been set
C25_Witness ==
    /\ result.op = "set_vrd"
    /\ vrd # None
    /\ script # None
    /\ shot_list # None
    /\ production_plan # None

\* C26: in every reachable state a stored ShotList is the one derived from
\* the stored Script and a stored ProductionPlan is one derived from the
\* stored ShotList, so that setting a new RD, providing clarifications or
\* regenerating the Script never leaves a stale ShotList or ProductionPlan.
C26_DownstreamMatchesUpstream ==
    /\ shot_list # None
         => /\ script # None
            /\ shot_list = generate_shot_list(script.beats, mode)
    /\ production_plan # None
         => /\ shot_list # None
            /\ \E constraints \in ConstraintInputs :
                  production_plan
                      = generate_production_plan(shot_list, constraints, mode)

\* C27: in human-in-the-loop mode, for every RD, set_vrd returns
\* 'needs_clarification' with three to five questions (the three
\* unconditional ones unless the cut to five drops one) and ends in
\* awaiting_clarifications, never 'ready_for_script'; and every
\* execute_full_pipeline call, also on a complete RD and after
\* clarifications were provided, returns 'needs_clarification' and stores no
\* Script.
C27_InteractiveAlwaysAsks ==
    [][(mode = "hitl" /\ result'.op \in {"set_vrd", ExecuteOp})
          => /\ result'.raised = "none"
             /\ result'.status = "needs_clarification"
             /\ result'.status # "ready_for_script"
             /\ Len(result'.questions) >= 3
             /\ {"midpoint_emotion", "act2_emphasis", "visual_metaphors"}
                   \subseteq {result'.questions[i].key :
                                 i \in 1..Len(result'.questions)}
                \/ Len(result'.questions) = 5
             /\ current_step' = "awaiting_clarifications"
             /\ script' = script]_vars

\* execute_full_pipeline was called with a complete RD after clarifications
\* had been provided, and asked for clarification again
C27_Witness ==
    /\ mode = "hitl"
    /\ result.op = ExecuteOp
    /\ result.status = "needs_clarification"
    /\ clarifications # EmptyDict
    /\ vrd # None
    /\ {"core_message", "tone", "cta", "estimated_duration"} \subseteq DOMAIN vrd
    /\ "clarifications" \in {steps_completed[i] : i \in 1..Len(steps_completed)}

\* C28: every beat built from a segment template satisfies the field
\* constraints of the Beat data model, so for an RD with a positive
\* duration and no clarifications beat construction never fails validation.
C28_TemplatesSatisfyBeatModel ==
    (tool_call.fn = "generate_alt_beats" /\ tool_result # None
     /\ ParseDuration(tool_call.vrd).value >= 1
     /\ tool_call.clarifications = EmptyDict)
        => LET beats == BuildBeats(
                            calculate_eight_part_timing(
                                ParseDuration(tool_call.vrd).value),
                            tool_call.vrd, tool_call.clarifications)
           IN  /\ \A i \in 1..Len(beats) :
                     /\ beats[i].shot_type \in ShotType
                     /\ beats[i].camera_movement
                          \in {"static", "pan", "tilt", "dolly", "zoom",
                               "handheld"}
                     /\ beats[i].complexity \in {"low", "medium", "high"}
                     /\ beats[i].intensity \in 1..10
                     /\ beats[i].eight_part_position \in EightPartBeat
               /\ tool_result.raised = "none"

\* C29: whenever a ShotPlan includes a budget-tier alternative workflow, the
\* alternative's total cost is strictly lower than the recommended
\* workflow's total cost.
C29_BudgetAlternativeIsCheaper ==
    (tool_call.fn = "generate_production_plan" /\ tool_result # None)
        => \A i \in 1..Len(tool_result.value.shot_plans) :
              LET shot_plan == tool_result.value.shot_plans[i]
              IN  \A k \in 1..Len(shot_plan.alternative_workflows) :
                     shot_plan.alternative_workflows[k].total_cost
                         < shot_plan.recommended_workflow.total_cost

\* C30: in every ProductionPlan the per-tool spend map sums to the total
\* estimated cost (in cents), every tool named in a step of a recommended
\* workflow has an entry, and primary_tools lists at most three of those
\* tools, each with its spend, in non-increasing order of spend.
C30_SpendMapAccountsForTotal ==
    (tool_call.fn = "generate_production_plan" /\ tool_result # None)
        => LET plan == tool_result.value
               by_tool == plan.by_tool
               primary == plan.primary_tools
               named == UNION {{shot_plan.recommended_workflow.steps[k].tool :
                                   k \in 1..Len(shot_plan.recommended_workflow.steps)} :
                               shot_plan \in {plan.shot_plans[i] :
                                                 i \in 1..Len(plan.shot_plans)}}
               RECURSIVE SumOver(_)
               SumOver(tools) ==
                   IF tools = {} THEN 0
                   ELSE LET t == CHOOSE t \in tools : TRUE
                        IN  by_tool[t] + SumOver(tools \ {t})
           IN  /\ SumOver(DOMAIN by_tool) = plan.total_estimated_cost
               /\ DOMAIN by_tool = named
               /\ Len(primary) <= 3
               /\ Len(primary) = (IF Cardinality(named) < 3
                                  THEN Cardinality(named) ELSE 3)
               /\ \A i \in 1..Len(primary) :
                     /\ primary[i][1] \in named
                     /\ primary[i][2] = by_tool[primary[i][1]]
                     /\ \A j \in 1..Len(primary) :
                           i < j => /\ primary[i][2] >= primary[j][2]
                                    /\ primary[i][1] # primary[j][1]
               /\ \A t \in named \ {primary[i][1] : i \in 1..Len(primary)} :
                     \A i \in 1..Len(primary) : by_tool[t] <= primary[i][2]

\* four tools were used and the one with the lowest spend is not among the
\* three primary tools
C30_Witness ==
    /\ tool_call.fn = "generate_production_plan"
    /\ tool_result # None
    /\ Cardinality(DOMAIN tool_result.value.by_tool) = 4
    /\ Len(tool_result.value.primary_tools) = 3
    /\ tool_result.value.primary_tools[1][2]
         > tool_result.value.primary_tools[3][2]

====
